---- MODULE Spec2Model ----
(***************************************************************************)
(* A model of the IFC documentation examples (examples/example1.py and     *)
(* examples/example2.py): the seeded GUID generator, the property          *)
(* attacher add_properties, the polygon builder and the two straight-line  *)
(* document builders example1() and example2().                            *)
(*                                                                         *)
(* Representation.  A 128-bit integer is a sequence of 16 bytes, most      *)
(* significant first (TLC integers are 32 bits wide).  A GUID is the       *)
(* sequence of the 22 characters ifcopenshell.guid.compress returns.  A    *)
(* Python value is a record [t |-> type name, v |-> literal].  A 2D or 3D  *)
(* coordinate is kept in halves (the integer 2*c stands for c), so that    *)
(* size / 2 stays an integer.  An ifc_file is the sequence of the entities *)
(* created in it; an entity is referred to by its position.                *)
(***************************************************************************)
EXTENDS Integers, Sequences, FiniteSets, TLC

VARIABLES
  generator,  \* GuidGenerator instance -> state of its _random_device
  issued,     \* GuidGenerator instance -> the calls made on it and their results
  uuidIn,     \* the 128-bit draws handed to the uuid conversion (pure-function check)
  uuidOut,    \* the identifiers the conversion returned for uuidIn
  example,    \* which builder the processes run: 1 (example1) or 2 (example2)
  pc,         \* process -> position in the running builder (0: not running)
  locals,     \* process -> local variable of the builder -> entity it is bound to
  file,       \* process -> the ifc_file under construction
  docs,       \* process -> the files returned by the finished invocations
  entropy,    \* process -> the operating system's random source behind uuid.uuid4()
  raised,     \* process -> the exception that ended the last call ("" if none)
  ret,        \* process -> the value the last call returned
  call,       \* the last direct call of add_properties or of a polygon builder:
              \* its arguments and the file as it was before the call
  main        \* process -> where its _main() is, what validation reported and
              \* the files it has written

vars == << generator, issued, uuidIn, uuidOut, example, pc, locals, file, docs,
           entropy, raised, ret, call, main >>

----------------------------------------------------------------------------
(* Bounds of the model.                                                    *)

MaxCalls == 3        \* calls made on one GuidGenerator instance
MaxInvocations == 2  \* invocations of the builder in one process
MaxKeys == 2         \* keys a property mapping may use
MaxPoints == 4       \* points of a polygon's coordinate list

----------------------------------------------------------------------------
(* The output of random.Random after seed(s): the 128-bit values           *)
(* getrandbits(128) returns, in order, as produced by CPython's Mersenne   *)
(* Twister.  Urandom1 and Urandom2 are two possible outputs of the         *)
(* operating system's random source.                                       *)

MT42 ==
  <<
    <<189,214,64,251,6,103,26,209,28,128,49,127,163,177,121,157>>,
    <<35,184,193,233,57,36,86,222,62,177,59,144,70,104,82,87>>,
    <<189,156,102,179,173,60,45,109,26,61,31,167,188,137,96,169>>,
    <<151,42,132,105,22,65,159,130,139,157,36,52,228,101,225,80>>,
    <<23,252,105,90,7,160,202,110,8,34,232,243,108,3,17,153>>,
    <<154,29,230,68,129,94,246,209,59,143,170,24,55,248,168,139>>,
    <<183,77,15,177,50,231,6,41,143,173,193,166,6,203,15,179>>,
    <<107,101,166,164,139,129,72,246,179,138,8,140,166,94,211,137>>,
    <<71,55,129,144,150,218,29,172,114,255,93,42,56,110,203,224>>,
    <<194,65,51,11,1,169,231,31,222,138,119,75,207,54,213,139>>,
    <<108,48,117,17,178,185,67,122,40,223,110,196,206,74,43,189>>,
    <<55,30,205,123,39,205,129,48,71,34,147,137,87,26,168,118>>,
    <<26,42,115,237,86,43,15,121,195,116,89,238,245,11,234,99>>,
    <<91,230,18,142,24,194,103,151,97,66,234,125,23,190,49,17>>,
    <<67,183,163,166,154,141,202,3,88,13,123,113,216,245,100,19>>,
    <<117,156,222,102,186,207,179,208,11,31,145,99,206,159,245,127>>,
    <<236,27,140,161,249,30,29,76,31,244,155,120,137,70,62,133>>,
    <<75,13,187,65,141,82,136,241,20,44,63,232,96,231,161,19>>,
    <<226,172,247,47,158,87,79,122,160,238,137,174,212,83,221,50>>,
    <<49,57,211,44,147,205,89,191,92,148,28,240,220,152,210,193>>,
    <<169,72,141,153,11,187,37,153,17,206,93,210,180,94,209,240>>,
    <<252,55,122,76,74,21,84,77,197,231,206,138,58,87,138,142>>,
    <<221,209,223,178,59,152,46,248,218,246,26,38,20,109,63,49>>,
    <<116,18,178,147,71,41,71,57,97,79,243,215,25,219,58,208>>,
    <<41,163,178,233,93,101,164,65,213,136,66,222,162,188,55,47>>,
    <<171,144,153,164,53,162,64,174,90,243,5,83,94,196,46,8>>,
    <<174,252,250,216,239,200,152,73,179,170,126,254,68,88,168,133>>,
    <<162,141,239,227,155,240,2,115,18,71,111,87,165,229,165,171>>,
    <<62,171,237,203,186,168,13,212,136,189,100,7,43,207,190,1>>,
    <<69,27,76,243,97,35,253,247,118,86,175,114,41,212,190,239>>,
    <<176,43,97,196,163,215,6,40,236,230,111,162,253,81,102,230>>,
    <<83,4,49,127,175,66,225,47,56,56,179,38,142,148,66,57>>,
    <<14,81,243,13,198,167,238,57,196,176,50,204,215,197,36,165>>,
    <<206,23,123,78,8,55,184,163,210,97,167,171,58,162,228,249>>,
    <<16,241,188,129,68,138,170,158,102,178,188,91,80,193,135,252>>,
    <<145,50,182,62,241,98,135,228,233,195,73,224,54,2,248,172>>,
    <<54,110,177,111,80,142,186,215,183,201,58,207,224,89,160,238>>,
    <<226,122,152,77,101,72,33,208,127,205,158,177,167,202,212,21>>,
    <<36,147,59,131,117,119,80,169,164,145,240,178,234,31,202,101>>,
    <<190,183,153,25,63,34,250,248,35,190,208,29,67,207,47,222>>,
    <<191,60,76,6,67,67,8,188,137,250,106,104,143,181,210,123>>,
    <<149,98,105,240,229,215,184,117,109,173,214,199,149,167,109,121>>,
    <<255,80,189,228,56,37,103,184,92,171,204,151,102,63,28,151>>,
    <<126,87,13,223,130,112,80,168,35,105,181,132,255,94,159,240>>,
    <<220,113,61,150,12,15,209,149,193,122,240,138,23,69,214,216>>,
    <<40,244,148,129,160,160,77,196,39,32,155,223,28,17,247,53>>,
    <<152,174,67,52,108,18,172,232,174,52,4,84,202,197,182,140>>,
    <<152,140,36,201,97,177,205,34,98,128,28,69,16,67,90,16>>,
    <<64,92,172,236,135,116,9,169,119,210,30,2,255,1,207,153>>,
    <<241,67,38,47,220,92,14,237,141,160,54,91,248,152,151,185>>,
    <<29,83,67,75,184,129,57,185,174,39,13,167,2,240,107,144>>,
    <<192,57,135,16,137,118,227,52,226,129,126,253,174,132,146,23>>,
    <<87,21,189,111,164,22,18,147,196,194,226,227,68,78,167,200>>,
    <<40,125,6,202,111,76,198,154,75,34,211,8,28,142,174,233>>,
    <<184,219,6,114,244,45,71,204,0,212,175,89,116,39,60,163>>,
    <<248,205,168,139,67,109,118,226,184,60,254,11,224,55,229,237>>,
    <<129,247,109,28,45,188,33,52,195,15,244,110,128,38,105,95>>,
    <<160,19,172,110,222,218,78,22,27,61,189,92,233,161,250,111>>,
    <<129,246,49,212,163,146,49,167,215,119,164,119,76,102,224,168>>,
    <<95,184,209,108,39,32,121,125,50,235,214,137,155,229,120,199>>,
    <<244,24,143,63,138,20,190,98,41,91,71,21,195,51,232,97>>,
    <<235,34,99,221,135,197,66,30,236,36,163,197,199,84,16,143>>,
    <<125,21,67,133,82,251,228,59,153,84,110,180,0,37,122,209>>,
    <<92,236,78,181,237,217,104,49,28,163,92,251,4,252,109,130>>,
    <<206,136,203,45,212,232,8,57,252,62,5,139,224,243,234,176>>,
    <<61,169,194,169,14,212,47,26,61,76,191,55,78,185,62,255>>,
    <<20,41,108,7,242,107,71,118,145,62,77,226,224,197,60,184>>,
    <<208,230,230,96,124,105,222,225,187,94,75,207,21,237,98,105>>,
    <<136,95,110,102,194,182,210,197,250,93,49,0,17,183,233,72>>,
    <<168,229,110,12,32,222,67,93,32,49,215,80,196,13,185,180>>,
    <<42,69,194,171,140,191,237,176,242,100,172,204,121,172,27,30>>,
    <<155,73,189,38,223,87,197,154,135,21,161,3,67,218,192,67>> >>

MT7 ==
  <<
    <<101,19,39,14,38,158,13,55,242,167,77,228,82,230,180,56>>,
    <<210,63,8,36,18,139,47,51,12,92,127,208,166,163,164,80>>,
    <<149,49,152,93,93,157,201,248,24,24,232,17,137,47,144,43>>,
    <<54,246,117,204,129,231,78,245,232,226,93,148,14,217,4,117>>,
    <<107,13,84,155,111,3,103,90,22,0,163,90,9,153,80,216>>,
    <<141,17,110,206,23,56,247,217,61,156,23,36,17,226,11,143>>,
    <<144,193,146,207,211,172,148,175,15,33,221,182,108,173,74,38>>,
    <<161,112,179,56,57,38,48,89,242,140,16,93,31,177,124,35>>,
    <<15,214,48,241,242,157,13,169,149,63,72,241,160,159,118,181>>,
    <<12,177,226,156,101,140,218,20,149,230,10,245,147,189,4,207>>,
    <<142,129,151,62,11,236,215,176,56,152,209,144,249,235,218,204>>,
    <<107,76,178,66,74,35,213,150,34,23,190,173,219,196,150,203>> >>

Urandom1 ==
  <<
    <<194,185,84,110,15,2,32,243,237,183,241,213,203,241,81,80>>,
    <<241,213,239,254,220,218,38,251,50,178,124,173,194,159,18,251>>,
    <<96,151,58,244,231,9,190,156,142,59,117,18,23,93,188,34>>,
    <<184,211,175,35,104,28,40,137,41,4,100,197,201,48,123,236>>,
    <<198,15,143,224,166,38,149,39,144,112,150,44,95,221,112,126>>,
    <<50,246,255,164,146,117,220,132,199,251,127,44,102,162,255,160>>,
    <<7,215,239,129,12,252,61,193,225,21,2,102,155,152,83,126>>,
    <<191,48,85,90,181,95,93,31,243,7,101,168,188,177,204,190>>,
    <<179,216,200,138,183,6,62,141,126,60,17,49,236,19,126,101>>,
    <<239,233,14,188,188,179,14,3,156,226,107,9,167,224,180,205>>,
    <<187,203,205,220,128,129,158,141,232,188,113,242,48,2,196,90>>,
    <<38,13,179,66,237,37,209,152,156,141,129,169,229,32,173,42>>,
    <<25,218,220,239,224,179,2,127,144,89,73,243,4,220,161,171>>,
    <<175,221,39,28,104,25,53,120,231,38,255,252,162,228,16,57>>,
    <<225,194,146,103,220,217,28,143,25,131,39,116,33,44,15,234>>,
    <<233,194,180,49,151,197,155,122,111,63,56,45,64,248,206,2>>,
    <<202,195,97,52,142,117,211,227,139,4,167,59,19,69,176,130>>,
    <<89,60,245,25,78,126,31,169,22,218,75,157,100,91,3,10>>,
    <<38,42,203,246,9,21,90,80,102,87,40,224,42,136,104,250>>,
    <<54,23,48,135,155,152,89,57,24,69,10,114,223,151,172,151>>,
    <<212,120,175,15,148,81,237,215,110,223,205,86,1,115,22,37>>,
    <<216,20,142,165,51,89,114,201,86,92,142,104,196,57,66,194>>,
    <<35,70,254,198,215,158,150,162,198,89,243,203,237,232,21,195>>,
    <<225,155,4,196,253,3,201,115,113,147,13,141,137,232,132,0>>,
    <<15,32,27,175,9,218,180,53,146,253,68,122,55,208,158,145>>,
    <<213,11,112,185,46,166,110,103,111,14,217,86,94,205,93,162>>,
    <<176,36,255,21,29,118,171,253,253,226,165,166,242,60,133,219>>,
    <<55,164,97,134,220,250,91,29,135,34,227,91,90,89,71,128>>,
    <<59,229,77,243,22,214,113,110,157,62,31,172,10,141,249,234>>,
    <<120,44,24,176,92,0,2,132,151,69,247,78,132,213,236,171>>,
    <<192,213,5,103,171,170,3,253,186,132,11,158,5,121,15,167>>,
    <<164,4,152,173,14,18,55,152,115,184,55,128,215,108,170,192>>,
    <<184,96,59,139,31,15,233,32,37,187,99,14,32,227,174,79>>,
    <<210,54,124,120,166,111,214,186,230,168,8,110,121,151,23,246>>,
    <<254,173,183,215,212,17,185,60,66,50,117,39,67,193,144,159>>,
    <<7,162,52,89,230,112,46,140,219,9,185,148,24,168,194,7>>,
    <<124,54,160,96,29,178,238,190,199,131,11,116,57,101,128,91>>,
    <<133,20,73,227,142,162,184,250,212,217,199,129,51,142,63,208>>,
    <<17,109,117,219,27,155,33,129,95,40,72,246,229,58,245,72>>,
    <<80,89,153,65,135,80,170,225,84,1,87,43,156,107,201,69>>,
    <<119,104,150,239,200,223,227,234,7,56,49,229,121,161,184,203>>,
    <<206,27,7,130,230,178,45,38,205,108,45,149,64,129,46,251>>,
    <<77,66,130,149,100,5,125,73,125,82,114,12,84,133,0,36>>,
    <<85,53,110,45,138,153,63,166,221,205,237,224,128,159,63,27>>,
    <<25,87,138,113,209,22,236,228,55,189,179,200,180,199,197,91>>,
    <<128,217,200,178,32,77,190,78,79,13,105,189,232,156,59,101>>,
    <<54,248,68,85,196,190,140,136,18,186,87,133,47,30,71,24>>,
    <<142,136,76,121,64,232,238,24,243,80,2,62,200,185,43,179>>,
    <<77,237,233,181,222,85,130,131,252,140,157,203,226,9,71,31>>,
    <<231,168,131,123,29,78,243,58,28,125,138,157,16,14,112,181>>,
    <<21,190,236,200,221,154,241,23,237,174,0,1,24,106,159,165>>,
    <<170,81,149,117,63,122,127,122,185,70,25,194,222,132,181,72>>,
    <<131,56,224,170,51,119,181,15,16,117,107,90,227,232,3,84>>,
    <<238,31,229,24,135,135,44,87,103,97,254,13,119,138,166,100>>,
    <<117,238,49,115,31,81,217,157,223,240,112,2,147,107,179,119>>,
    <<85,53,188,118,227,220,82,106,53,193,11,171,15,79,165,194>>,
    <<9,4,120,122,128,46,111,13,135,84,218,23,200,40,222,12>>,
    <<16,136,57,72,204,32,16,186,222,206,82,55,169,90,216,139>>,
    <<51,236,153,151,61,169,124,156,115,218,144,244,16,63,126,98>>,
    <<168,13,239,193,165,247,133,183,191,201,236,187,183,165,194,42>>,
    <<152,172,149,43,35,235,0,108,38,51,156,61,113,99,17,7>>,
    <<189,46,88,154,71,188,183,32,85,19,77,250,16,19,218,147>>,
    <<236,211,13,31,114,178,230,67,76,225,150,84,157,230,234,140>>,
    <<201,176,231,251,237,32,16,141,19,110,20,235,162,22,67,143>>,
    <<73,181,190,149,65,203,168,223,30,7,138,138,123,232,69,123>>,
    <<184,177,164,248,246,200,184,236,105,64,28,242,228,164,128,157>>,
    <<43,32,6,94,232,3,17,70,7,154,9,47,119,97,156,225>>,
    <<120,254,170,180,32,33,190,92,246,61,173,161,111,183,7,121>>,
    <<255,18,71,142,235,253,84,205,68,205,219,175,134,62,88,44>>,
    <<227,192,137,130,54,153,253,117,222,129,16,220,176,113,82,51>>,
    <<238,246,34,188,246,41,192,39,225,31,64,52,24,241,157,28>>,
    <<93,192,237,205,153,146,50,228,131,228,7,153,165,27,212,232>>,
    <<140,156,54,81,229,27,160,66,245,109,236,178,184,180,93,69>>,
    <<120,3,140,228,123,138,97,175,134,206,187,40,197,135,145,51>>,
    <<49,137,233,229,40,88,234,231,131,147,10,38,42,202,244,72>>,
    <<4,66,94,22,71,150,124,117,38,190,13,8,138,216,13,24>>,
    <<181,187,151,183,99,233,222,227,67,194,148,152,230,144,253,142>>,
    <<226,203,224,61,0,145,44,81,220,54,161,215,216,90,244,86>>,
    <<173,219,147,253,222,112,147,165,157,2,46,39,30,85,117,141>>,
    <<235,166,50,129,77,164,10,59,115,231,16,163,139,89,206,43>>,
    <<20,147,1,251,95,12,170,140,64,192,141,89,154,41,253,47>>,
    <<79,202,152,83,227,104,51,164,1,244,183,239,143,185,156,148>>,
    <<235,4,228,6,181,240,134,114,187,12,154,67,129,30,182,191>>,
    <<73,121,224,131,102,55,206,235,46,243,65,73,114,95,226,51>> >>

Urandom2 ==
  <<
    <<230,56,188,164,107,215,13,137,152,127,201,30,133,92,223,248>>,
    <<71,6,172,167,33,93,197,98,36,208,21,178,56,143,220,227>>,
    <<149,86,60,85,160,71,93,211,32,131,94,10,123,228,168,7>>,
    <<254,239,166,127,181,16,36,226,23,217,103,184,159,1,215,61>>,
    <<61,245,187,20,12,80,38,174,130,151,78,35,111,118,27,3>>,
    <<10,84,108,1,201,222,72,253,255,17,58,30,57,185,93,147>>,
    <<142,104,63,40,144,177,35,255,7,34,209,147,107,204,123,158>>,
    <<149,65,147,126,193,191,199,171,33,46,3,189,173,40,212,122>>,
    <<192,207,23,197,119,90,206,54,79,215,235,160,41,154,82,135>>,
    <<166,54,3,153,239,81,44,88,200,53,21,111,167,20,161,233>>,
    <<219,112,166,75,230,133,172,183,20,120,110,150,71,235,147,206>>,
    <<240,33,124,59,134,68,161,230,210,129,138,221,217,77,141,33>>,
    <<176,241,37,167,239,130,128,121,167,139,98,68,148,34,43,236>>,
    <<179,63,112,244,74,19,185,218,159,78,83,187,112,174,49,196>>,
    <<109,149,25,8,25,236,68,19,18,94,92,251,204,33,20,184>>,
    <<17,166,255,252,165,27,219,238,22,210,185,174,183,254,127,64>>,
    <<207,5,124,50,240,117,205,152,80,47,230,91,100,42,29,83>>,
    <<153,2,233,64,39,163,241,159,246,6,194,214,155,247,8,143>>,
    <<126,218,47,18,244,74,4,11,17,137,176,121,106,179,155,238>>,
    <<205,79,226,193,207,105,206,78,134,218,7,12,21,202,92,94>>,
    <<10,224,40,92,204,36,117,76,45,223,218,247,140,142,110,163>>,
    <<195,175,133,193,21,129,241,49,24,142,255,178,235,215,87,44>>,
    <<12,36,95,40,123,146,141,78,16,238,104,250,109,87,18,82>>,
    <<6,159,175,4,214,143,32,205,68,242,122,3,126,28,169,19>>,
    <<182,70,184,185,46,22,209,46,53,9,86,122,15,202,127,76>>,
    <<148,89,228,192,209,250,177,21,28,60,80,186,192,78,175,70>>,
    <<21,64,106,164,23,134,198,65,251,45,140,88,242,190,255,252>>,
    <<60,169,255,38,2,158,4,230,60,234,160,177,211,216,138,190>>,
    <<127,194,36,206,59,26,100,215,12,178,3,75,202,160,233,221>>,
    <<101,176,202,199,162,60,202,22,83,155,181,48,234,234,152,52>>,
    <<72,22,186,10,40,44,87,236,200,155,52,182,120,229,121,5>>,
    <<136,187,32,58,100,184,81,71,50,237,250,106,227,244,230,68>>,
    <<154,77,118,217,6,237,39,123,218,131,184,205,241,153,108,69>>,
    <<22,61,190,20,10,52,73,90,38,100,198,72,110,43,182,102>>,
    <<185,72,134,37,244,220,150,149,147,223,188,205,70,86,32,218>>,
    <<141,173,156,64,11,195,148,61,106,1,108,172,86,3,117,142>>,
    <<246,18,118,204,181,198,1,70,85,72,137,202,96,32,6,17>>,
    <<9,10,247,247,209,162,203,6,234,27,61,133,184,52,30,122>>,
    <<212,45,160,240,131,1,111,10,88,169,115,78,29,217,77,59>>,
    <<33,225,115,217,108,81,116,209,21,251,100,37,108,49,222,69>>,
    <<165,43,217,167,25,179,151,10,164,151,154,132,152,252,44,214>>,
    <<167,207,81,199,211,132,225,250,222,182,226,38,221,186,158,179>>,
    <<23,251,27,246,77,113,167,94,205,113,205,224,150,161,198,121>>,
    <<97,86,230,75,147,103,35,86,49,143,8,44,8,2,245,9>>,
    <<74,10,94,206,247,8,186,246,110,20,243,86,244,92,56,17>>,
    <<67,1,185,239,247,94,173,127,176,242,43,194,215,100,61,8>>,
    <<161,72,152,35,77,128,6,14,163,218,149,13,180,48,97,89>>,
    <<63,104,0,157,188,160,17,160,116,246,201,140,193,155,190,195>>,
    <<66,120,92,255,205,61,180,220,57,232,152,165,171,22,165,62>>,
    <<4,225,79,194,236,73,85,70,35,211,36,36,215,156,29,212>>,
    <<66,216,128,204,231,137,92,172,178,224,111,109,102,173,102,35>>,
    <<248,51,222,30,184,20,239,205,171,31,112,243,21,150,20,36>>,
    <<208,132,143,99,80,39,232,6,218,152,77,134,163,105,182,235>>,
    <<174,65,65,34,97,35,53,41,79,93,4,252,137,57,154,118>>,
    <<7,161,67,213,158,95,93,42,114,15,188,195,197,85,231,105>>,
    <<82,163,13,215,210,186,100,137,87,199,185,237,169,169,232,28>>,
    <<80,99,55,57,20,2,162,116,121,141,162,86,57,238,109,37>>,
    <<22,101,85,33,212,205,74,197,136,11,229,10,227,177,116,147>>,
    <<155,101,126,125,43,62,84,98,254,97,192,70,59,161,181,40>>,
    <<89,117,85,204,45,144,68,241,26,3,91,7,207,153,69,251>>,
    <<201,167,166,189,66,225,12,139,68,3,37,44,101,199,185,192>>,
    <<243,197,131,227,153,254,226,83,6,132,78,90,43,146,160,115>>,
    <<30,78,120,245,111,129,237,61,179,48,227,40,196,185,76,94>>,
    <<252,167,203,60,75,103,89,104,228,82,243,232,171,5,12,166>>,
    <<8,155,196,214,134,81,117,85,22,23,79,203,54,149,149,3>>,
    <<188,205,94,196,243,109,98,153,33,36,127,35,25,224,198,150>>,
    <<216,44,132,241,214,84,104,222,81,223,2,53,60,243,11,108>>,
    <<232,125,58,224,144,237,131,147,163,149,252,124,101,61,161,92>>,
    <<147,89,125,186,62,76,26,202,106,245,50,248,68,56,130,7>>,
    <<189,217,212,16,118,203,107,190,247,71,227,242,111,14,79,99>>,
    <<147,234,56,169,174,38,25,78,87,224,230,80,0,174,132,166>>,
    <<137,174,216,153,172,82,184,11,63,42,167,80,80,42,102,224>>,
    <<250,10,54,80,239,119,211,104,26,103,211,22,199,44,204,151>>,
    <<155,178,19,241,86,180,228,91,252,73,195,130,122,2,113,101>>,
    <<59,0,52,114,148,54,26,7,140,78,162,130,32,222,9,204>>,
    <<202,32,220,147,118,205,190,154,17,8,56,165,109,133,22,192>>,
    <<52,52,81,118,43,234,20,40,192,123,251,145,104,21,187,187>>,
    <<244,47,239,254,32,70,221,118,117,80,55,43,112,45,151,191>>,
    <<143,79,1,113,4,207,88,150,181,255,69,14,249,220,252,59>>,
    <<249,202,219,240,79,6,132,48,150,51,245,74,81,215,185,95>>,
    <<103,252,238,18,145,143,236,21,187,245,43,149,43,37,228,96>>,
    <<216,96,30,140,0,187,41,203,4,222,53,116,56,213,119,85>>,
    <<118,43,57,139,115,110,218,154,151,93,80,6,37,156,248,33>>,
    <<113,4,74,30,9,199,188,139,123,231,176,173,89,79,237,16>> >>

DefaultSeed == 42

Seeds == {DefaultSeed, 7}

MersenneTwister(seed) == IF seed = DefaultSeed THEN MT42 ELSE MT7

Urandom(src) == IF src = 1 THEN Urandom1 ELSE Urandom2

EntropySources == {1, 2}

----------------------------------------------------------------------------
(* uuid.UUID(int=..., version=...).hex and ifcopenshell.guid.compress      *)

Chars ==
  << "0","1","2","3","4","5","6","7","8","9",
     "A","B","C","D","E","F","G","H","I","J","K","L","M",
     "N","O","P","Q","R","S","T","U","V","W","X","Y","Z",
     "a","b","c","d","e","f","g","h","i","j","k","l","m",
     "n","o","p","q","r","s","t","u","v","w","x","y","z",
     "_","$" >>

Pow64(i) == IF i = 0 THEN 1 ELSE IF i = 1 THEN 64 ELSE IF i = 2 THEN 4096 ELSE 262144

\* UUID with the whole byte that holds the version cleared (a mask of 0xff00
\* where the code's is 0xf000).
UUIDWideMask(int, version) ==
  [ b \in 1..16 |->
      IF b = 9 THEN (int[b] % 64) + 128
      ELSE IF b = 7 THEN version * 16
      ELSE int[b] ]

\* uuid.UUID(int=i, version=v): the variant bits (63, 62) are set to 1 0 and
\* the version bits (79..76) to v; every other bit of i is kept.
UUID(int, version) ==
  [ b \in 1..16 |->
      IF b = 9 THEN (int[b] % 64) + 128
      ELSE IF b = 7 THEN (int[b] % 16) + version * 16
      ELSE int[b] ]

\* UUID.hex: 32 hexadecimal digits, held as their values 0..15.
Hex(u) == [ i \in 1..32 |-> IF i % 2 = 1 THEN u[(i + 1) \div 2] \div 16
                                         ELSE u[i \div 2] % 16 ]

\* b64(v, l) of ifcopenshell.guid.compress: l base-64 digits of v, most
\* significant first, in the alphabet Chars.
B64(v, l) == [ i \in 1..l |-> Chars[((v \div Pow64(l - i)) % 64) + 1] ]

\* ifcopenshell.guid.compress(hex): the first byte as 2 characters, then
\* five groups of 3 bytes as 4 characters each.
Compress(hex) ==
  LET bs == [ i \in 1..16 |-> 16 * hex[2 * i - 1] + hex[2 * i] ]
      grp(i) == B64(bs[i] * 65536 + bs[i + 1] * 256 + bs[i + 2], 4)
  IN  B64(bs[1], 2) \o grp(2) \o grp(5) \o grp(8) \o grp(11) \o grp(14)

\* The body of new_consistent_uuid1_guid / new_consistent_uuid4_guid once the
\* draw is made.
ConsistentGuid(draw, version) == Compress(Hex(UUID(draw, version)))

----------------------------------------------------------------------------
(* GuidGenerator                                                           *)

\* __post_init__: a fresh random.Random seeded with self.seed.
PostInit(seed) == [seed |-> seed, n |-> 0]

\* _next_consistent_uuid_seed drawing from one device shared by all the
\* instances (a class-level or module-level Random).
NextConsistentUuidSeedShared(g) ==
  MersenneTwister(generator[g].seed)[generator[1].n + generator[2].n + 1]

\* _next_consistent_uuid_seed: the next getrandbits(128) of the instance's
\* own device.
NextConsistentUuidSeed(g) ==
  MersenneTwister(generator[g].seed)[generator[g].n + 1]

\* The device of instance g after one draw.
Advance(g) == [generator EXCEPT ![g].n = @ + 1]

Instances == {1, 2}

NewConsistentUuid1Guid(g) ==
  /\ generator' = Advance(g)
  /\ issued' = [issued EXCEPT ![g] =
                  Append(@, [kind |-> 1, guid |-> ConsistentGuid(NextConsistentUuidSeed(g), 1)])]

NewConsistentUuid4Guid(g) ==
  /\ generator' = Advance(g)
  /\ issued' = [issued EXCEPT ![g] =
                  Append(@, [kind |-> 4, guid |-> ConsistentGuid(NextConsistentUuidSeed(g), 4)])]

----------------------------------------------------------------------------
(* Entities of an ifc_file                                                 *)

NoValue == [wrap |-> "", t |-> "", v |-> ""]

\* ifc_file.create_entity(type): every attribute unset.
Entity(type) ==
  [ type |-> type, GlobalId |-> << >>, Name |-> "", Relating |-> 0,
    Related |-> << >>, Value |-> NoValue, Coords |-> << >>,
    Representation |-> 0, ObjectPlacement |-> 0 ]

Procs == {1, 2}

\* ifcopenshell.guid.new(): compress(uuid.uuid4().hex), the uuid4 taken from
\* the operating system's random source; k draws were consumed before.
GuidNew(src, k) == Compress(Hex(UUID(Urandom(src)[k + 1], 4)))

----------------------------------------------------------------------------
(* add_properties                                                          *)

\* isinstance(value, cls) for the classes add_properties tests; bool is a
\* subclass of int.
IsInstance(value, cls) ==
  \/ value.t = cls
  \/ cls = "int" /\ value.t = "bool"

\* The IfcValue subtype chosen for a value ("" when the else branch raises).
ValueWrapper(value) ==
  IF IsInstance(value, "str") THEN "IfcText"
  ELSE IF IsInstance(value, "int") THEN "IfcInteger"
  ELSE IF IsInstance(value, "float") THEN "IfcReal"
  ELSE ""

\* createIfcPropertySingleValue(Name=key, NominalValue=value_instance): the
\* value instance is held inside the property that carries it.
PropertySingleValue(key, value) ==
  [ Entity("IfcPropertySingleValue") EXCEPT
      !.Name = key,
      !.Value = [wrap |-> ValueWrapper(value), t |-> value.t, v |-> value.v] ]

\* The created property put at the front of property_list (insert(0, ...)).
ListPrepend(property_list, id) == << id >> \o property_list

\* Where the i-th created property goes in property_list (list.append).
ListAppend(property_list, id) == Append(property_list, id)

\* The for loop of add_properties from entry i on: f is the file and
\* property_list the list built so far.
RECURSIVE PropertyLoop(_, _, _, _)
PropertyLoop(f, properties_dict, i, property_list) ==
  IF i > Len(properties_dict)
  THEN [file |-> f, property_list |-> property_list, raised |-> ""]
  ELSE LET key == properties_dict[i].key
           value == properties_dict[i].value
       IN  IF ValueWrapper(value) = ""
           THEN [file |-> f, property_list |-> property_list, raised |-> "ValueError"]
           ELSE PropertyLoop(Append(f, PropertySingleValue(key, value)),
                             properties_dict, i + 1,
                             ListAppend(property_list, Len(f) + 1))

DefaultPropertySetName == "DocumentationObjectProperties"

\* add_properties that creates the property set and the relationship from
\* the properties made so far even when the loop raised (the creation in a
\* finally block).
AddPropertiesAttachAnyway(f, element, properties_dict, src, k) ==
  LET loop == PropertyLoop(f, properties_dict, 1, << >>)
      property_set ==
        [ Entity("IfcPropertySet") EXCEPT
            !.GlobalId = GuidNew(src, k),
            !.Name = DefaultPropertySetName,
            !.Related = loop.property_list ]
      rel ==
        [ Entity("IfcRelDefinesByProperties") EXCEPT
            !.GlobalId = GuidNew(src, k + 1),
            !.Related = << element >>,
            !.Relating = Len(loop.file) + 1 ]
  IN  [file |-> loop.file \o << property_set, rel >>, raised |-> loop.raised, drawn |-> 2]

\* add_properties(ifc_file, element, properties_dict): the file afterwards,
\* the exception raised ("" if none) and the number of guid.new() calls made.
AddProperties(f, element, properties_dict, src, k) ==
  LET loop == PropertyLoop(f, properties_dict, 1, << >>)
      property_set ==
        [ Entity("IfcPropertySet") EXCEPT
            !.GlobalId = GuidNew(src, k),
            !.Name = DefaultPropertySetName,
            !.Related = loop.property_list ]
      rel ==
        [ Entity("IfcRelDefinesByProperties") EXCEPT
            !.GlobalId = GuidNew(src, k + 1),
            !.Related = << element >>,
            !.Relating = Len(loop.file) + 1 ]
  IN  IF loop.raised # ""
      THEN [file |-> loop.file, raised |-> loop.raised, drawn |-> 0]
      ELSE [file |-> loop.file \o << property_set, rel >>, raised |-> "", drawn |-> 2]

----------------------------------------------------------------------------
(* create_polygon_representation and create_square_representation          *)

CartesianPoint(coord) == [Entity("IfcCartesianPoint") EXCEPT !.Coords = coord]

\* create_polygon_representation(ifc_file, geometric_context, coords, origin):
\* the file afterwards and the pair (shape, placement) returned.  The
\* function has no raise statement and makes no check of coords: the points
\* of the polyline are those of coords, one for one.
CreatePolygonRepresentation(f, geometric_context, coords, origin) ==
  LET pts == coords
      n == Len(f)
      m == Len(pts)
      points == [ i \in 1..m |-> CartesianPoint(pts[i]) ]
      polyline == [Entity("IfcPolyline") EXCEPT !.Related = [ i \in 1..m |-> n + i ]]
      representation ==
        [ Entity("IfcShapeRepresentation") EXCEPT
            !.Name = "Annotation2D", !.Relating = geometric_context,
            !.Related = << n + m + 1 >> ]
      product_definition_shape ==
        [Entity("IfcProductDefinitionShape") EXCEPT !.Related = << n + m + 2 >>]
      origin_pt == CartesianPoint(origin)
      axis2placement == [Entity("IfcAxis2Placement3D") EXCEPT !.Relating = n + m + 4]
      local_placement == [Entity("IfcLocalPlacement") EXCEPT !.Relating = n + m + 5]
  IN  [ file |-> f \o points \o
                 << polyline, representation, product_definition_shape,
                    origin_pt, axis2placement, local_placement >>,
        raised |-> "", shape |-> n + m + 3, placement |-> n + m + 6 ]

\* The corners create_square_representation computes; coordinates are in
\* halves, so half_size = size / 2 is the integer size.
SquareCoords(size) ==
  LET half_size == size
  IN  << << -half_size, -half_size >>, << half_size, -half_size >>,
         << half_size, half_size >>, << -half_size, half_size >>,
         << -half_size, -half_size >> >>

CreateSquareRepresentation(f, geometric_context, size, origin) ==
  CreatePolygonRepresentation(f, geometric_context, SquareCoords(size), origin)

----------------------------------------------------------------------------
(* The builders example1() and example2() as straight-line programs        *)

Str(v) == [t |-> "str", v |-> v]

TypeDict(tag) == << [key |-> "type", value |-> Str(tag)] >>

Ins(op) ==
  [ op |-> op, var |-> "", type |-> "", name |-> "", dict |-> << >>,
    children |-> << >>, size |-> 0, origin |-> << 0, 0, 0 >> ]

\* x = ifc_file.createIfcAnnotation(); x.GlobalId = new_host_guid();
\* x.Name = name
Annotation(var, name) ==
  << [Ins("create") EXCEPT !.var = var, !.type = "IfcAnnotation"],
     [Ins("guid") EXCEPT !.var = var],
     [Ins("name") EXCEPT !.var = var, !.name = name] >>

Props(var, tag) == << [Ins("props") EXCEPT !.var = var, !.dict = TypeDict(tag)] >>

Aggregates(parent, children) ==
  << [Ins("agg") EXCEPT !.var = parent, !.children = children] >>

Square(var, size, origin) ==
  << [Ins("square") EXCEPT !.var = var, !.size = size, !.origin = origin] >>

\* The common start with the aggregation of the project's roots moved up,
\* before the document set is created.
PrologueAggregateFirst ==
  << Ins("add_owner"), Ins("add_units"), Ins("add_default_geometry_context"),
     Ins("add_project"),
     [Ins("create") EXCEPT !.var = "site", !.type = "IfcSite"],
     [Ins("guid") EXCEPT !.var = "site"] >>
  \o Aggregates("project", << "site", "docset" >>)
  \o Annotation("docset", "My Document Set") \o Props("docset", "DocumentSet")

\* The statements both builders start with, up to the aggregation of the
\* project's roots.
Prologue ==
  << Ins("add_owner"), Ins("add_units"), Ins("add_default_geometry_context"),
     Ins("add_project"),
     [Ins("create") EXCEPT !.var = "site", !.type = "IfcSite"],
     [Ins("guid") EXCEPT !.var = "site"] >>
  \o Annotation("docset", "My Document Set") \o Props("docset", "DocumentSet")
  \o Aggregates("project", << "site", "docset" >>)

Example1 ==
  Prologue
  \o Annotation("sheet1", "Sample Sheet 1") \o Props("sheet1", "Sheet")
  \o Annotation("viewport1", "ViewPort 1") \o Props("viewport1", "ViewPort")
  \o Aggregates("sheet1", << "viewport1" >>)
  \o Annotation("view1", "View 1") \o Props("view1", "View")
  \o Aggregates("viewport1", << "view1" >>)
  \o Annotation("sheet2", "Sample Sheet 2") \o Props("sheet2", "Sheet")
  \o Annotation("viewport2a", "ViewPort A") \o Props("viewport2a", "ViewPort")
  \o Annotation("view2a", "View 2a") \o Props("view2a", "View")
  \o Aggregates("viewport2a", << "view2a" >>)
  \o Annotation("viewport2b", "ViewPort B") \o Props("viewport2b", "ViewPort")
  \o Annotation("view2b", "View 2b") \o Props("view2b", "View")
  \o Aggregates("viewport2b", << "view2b" >>)
  \o Aggregates("sheet2", << "viewport2a", "viewport2b" >>)
  \o Aggregates("docset", << "sheet1", "sheet2" >>)
  \o << Ins("return") >>

\* Sizes and origins are in halves: size=30 is 60, origin=(-5, 0, 0) is
\* (-10, 0, 0).
Example2 ==
  Prologue
  \o Annotation("sheet", "Sample Sheet") \o Square("sheet", 60, << 0, 0, 0 >>)
  \o Props("sheet", "Sheet")
  \o Annotation("viewport1", "ViewPort 1") \o Props("viewport1", "ViewPort")
  \o Annotation("view1", "View: 10x10 square.") \o Props("view1", "View")
  \o Square("view1", 20, << -10, 0, 0 >>)
  \o Aggregates("viewport1", << "view1" >>)
  \o Annotation("viewport2", "ViewPort 2") \o Props("viewport2", "ViewPort")
  \o Annotation("view2", "View: 8x8 square") \o Props("view2", "View")
  \o Square("view2", 16, << 12, 0, 0 >>)
  \o Aggregates("viewport2", << "view2" >>)
  \o Aggregates("sheet", << "viewport1", "viewport2" >>)
  \o Aggregates("docset", << "sheet" >>)
  \o << Ins("return") >>

Program == IF example = 1 THEN Example1 ELSE Example2

LocalNames ==
  { "owner_hist", "unit_assignment", "geom_context", "project", "site", "docset",
    "sheet", "sheet1", "sheet2", "viewport1", "viewport2", "viewport2a",
    "viewport2b", "view1", "view2", "view2a", "view2b", "element" }

NoLocals == [ x \in LocalNames |-> 0 ]

\* _main() not yet called: nothing validated, nothing written.
NoMain == [ at |-> "idle", violations |-> FALSE, written |-> << >> ]

NoCall ==
  [ n |-> 0, fn |-> "", dict |-> << >>, coords |-> << >>, size |-> 0, before |-> << >> ]

----------------------------------------------------------------------------
(* One process running a builder.  pc[p] is the index in Program of the    *)
(* next statement, 0 between invocations and -1 once the process has       *)
(* ended.  The module-level new_host_guid is the bound method              *)
(* new_consistent_uuid1_guid of the process's one GuidGenerator().         *)

Running(p) == pc[p] \in 1..Len(Program)

Cur(p) == Program[pc[p]]

Goto(p, next) == pc' = [pc EXCEPT ![p] = next]

NewHostGuid(p) == NewConsistentUuid1Guid(p)

\* The identifier the pending new_host_guid() call of process p returns.
HostGuid(p) == ConsistentGuid(NextConsistentUuidSeed(p), 1)

Created(p, entities) == file' = [file EXCEPT ![p] = @ \o entities]

Bound(p, var, id) == locals' = [locals EXCEPT ![p][var] = id]

\* example1() / example2() is called: ifc_file = ifcopenshell.file(...).
CallExample(p) ==
  /\ pc[p] = 0
  /\ raised[p] = ""
  /\ Len(docs[p]) < MaxInvocations
  /\ file' = [file EXCEPT ![p] = << >>]
  /\ locals' = [locals EXCEPT ![p] = NoLocals]
  /\ Goto(p, 1)
  /\ UNCHANGED << generator, issued, docs, entropy, raised, ret >>

AddOwner(p) ==
  /\ Running(p) /\ Cur(p).op = "add_owner"
  /\ LET n == Len(file[p])
     IN  /\ Created(p, << [Entity("IfcOrganization") EXCEPT !.Name = "SWAPP.ai"],
                          [Entity("IfcApplication") EXCEPT !.Relating = n + 1],
                          [Entity("IfcPerson") EXCEPT !.Name = "Example"],
                          [Entity("IfcPersonAndOrganization") EXCEPT
                              !.Relating = n + 3, !.Related = << n + 1 >>],
                          [Entity("IfcOwnerHistory") EXCEPT
                              !.Relating = n + 4, !.Related = << n + 2 >>] >>)
         /\ Bound(p, "owner_hist", n + 5)
  /\ Goto(p, pc[p] + 1)
  /\ UNCHANGED << generator, issued, docs, entropy, raised, ret >>

AddUnits(p) ==
  /\ Running(p) /\ Cur(p).op = "add_units"
  /\ LET n == Len(file[p])
         si(name) == [Entity("IfcSIUnit") EXCEPT !.Name = name]
     IN  /\ Created(p, << si("METRE"), si("SQUARE_METRE"), si("CUBIC_METRE"),
                          si("RADIAN"),
                          [Entity("IfcMeasureWithUnit") EXCEPT !.Relating = n + 4],
                          [Entity("IfcConversionBasedUnit") EXCEPT
                              !.Name = "DEGREE", !.Relating = n + 5,
                              !.Related = << n + 7 >>],
                          Entity("IfcDimensionalExponents"),
                          [Entity("IfcUnitAssignment") EXCEPT
                              !.Related = << n + 1, n + 2, n + 3, n + 6 >>] >>)
         /\ Bound(p, "unit_assignment", n + 8)
  /\ Goto(p, pc[p] + 1)
  /\ UNCHANGED << generator, issued, docs, entropy, raised, ret >>

\* The entities add_default_geometry_context creates in a file that holds n
\* entities; the last one is the context it returns.
GeometryContextEntities(n) ==
  << [Entity("IfcDirection") EXCEPT !.Coords = << 2, 0, 0 >>],
     [Entity("IfcDirection") EXCEPT !.Coords = << 0, 0, 2 >>],
     CartesianPoint(<< 0, 0, 0 >>),
     [Entity("IfcAxis2Placement3D") EXCEPT
         !.Relating = n + 3, !.Related = << n + 2, n + 1 >>],
     [Entity("IfcGeometricRepresentationContext") EXCEPT
         !.Name = "Model", !.Relating = n + 4] >>

AddDefaultGeometryContext(p) ==
  /\ Running(p) /\ Cur(p).op = "add_default_geometry_context"
  /\ Created(p, GeometryContextEntities(Len(file[p])))
  /\ Bound(p, "geom_context", Len(file[p]) + 5)
  /\ Goto(p, pc[p] + 1)
  /\ UNCHANGED << generator, issued, docs, entropy, raised, ret >>

\* add_project: createIfcProject(new_host_guid()) and its attributes.
AddProject(p) ==
  /\ Running(p) /\ Cur(p).op = "add_project"
  /\ NewHostGuid(p)
  /\ Created(p, << [Entity("IfcProject") EXCEPT
                      !.GlobalId = HostGuid(p),
                      !.Name = IF example = 1 THEN "Example1.py" ELSE "Example2.py",
                      !.Relating = locals[p]["owner_hist"],
                      !.Related = << locals[p]["geom_context"],
                                     locals[p]["unit_assignment"] >>] >>)
  /\ Bound(p, "project", Len(file[p]) + 1)
  /\ Goto(p, pc[p] + 1)
  /\ UNCHANGED << docs, entropy, raised, ret >>

\* x = ifc_file.createIfcSite() / createIfcAnnotation()
CreateElement(p) ==
  /\ Running(p) /\ Cur(p).op = "create"
  /\ Created(p, << Entity(Cur(p).type) >>)
  /\ Bound(p, Cur(p).var, Len(file[p]) + 1)
  /\ Goto(p, pc[p] + 1)
  /\ UNCHANGED << generator, issued, docs, entropy, raised, ret >>

\* x.GlobalId = new_host_guid()
AssignGlobalId(p) ==
  /\ Running(p) /\ Cur(p).op = "guid"
  /\ NewHostGuid(p)
  /\ file' = [file EXCEPT ![p][locals[p][Cur(p).var]].GlobalId = HostGuid(p)]
  /\ Goto(p, pc[p] + 1)
  /\ UNCHANGED << locals, docs, entropy, raised, ret >>

\* x.Name = '...'
AssignName(p) ==
  /\ Running(p) /\ Cur(p).op = "name"
  /\ file' = [file EXCEPT ![p][locals[p][Cur(p).var]].Name = Cur(p).name]
  /\ Goto(p, pc[p] + 1)
  /\ UNCHANGED << generator, issued, locals, docs, entropy, raised, ret >>

\* add_properties(ifc_file, x, {"type": ...}); an exception leaves the
\* builder and ends the invocation.
AttachProperties(p) ==
  /\ Running(p) /\ Cur(p).op = "props"
  /\ LET r == AddProperties(file[p], locals[p][Cur(p).var], Cur(p).dict,
                            entropy[p].src, entropy[p].k)
     IN  /\ file' = [file EXCEPT ![p] = r.file]
         /\ entropy' = [entropy EXCEPT ![p].k = @ + r.drawn]
         /\ raised' = [raised EXCEPT ![p] = r.raised]
         /\ Goto(p, IF r.raised = "" THEN pc[p] + 1 ELSE 0)
  /\ UNCHANGED << generator, issued, locals, docs, ret >>

\* x.Representation, x.ObjectPlacement = create_square_representation(...)
AttachSquare(p) ==
  /\ Running(p) /\ Cur(p).op = "square"
  /\ LET r == CreateSquareRepresentation(file[p], locals[p]["geom_context"],
                                         Cur(p).size, Cur(p).origin)
     IN  file' = [file EXCEPT ![p] =
                    [r.file EXCEPT ![locals[p][Cur(p).var]] =
                        [@ EXCEPT !.Representation = r.shape,
                                  !.ObjectPlacement = r.placement]]]
  /\ Goto(p, pc[p] + 1)
  /\ UNCHANGED << generator, issued, locals, docs, entropy, raised, ret >>

\* RelatedObjects that lists the relating object among its own parts.
RelatedObjectsWithParent(p, children) ==
  << locals[p][Cur(p).var] >> \o [ i \in 1..Len(children) |-> locals[p][children[i]] ]

\* RelatedObjects that keeps the first listed child only.
RelatedObjectsFirstOnly(p, children) == << locals[p][children[1]] >>

\* The RelatedObjects of the relationship under creation.
RelatedObjects(p, children) ==
  [ i \in 1..Len(children) |-> locals[p][children[i]] ]

\* ifc_file.create_entity('IfcRelAggregates', GlobalId=new_host_guid(),
\*                        RelatingObject=parent, RelatedObjects=[...])
CreateRelAggregates(p) ==
  /\ Running(p) /\ Cur(p).op = "agg"
  /\ NewHostGuid(p)
  /\ Created(p, << [Entity("IfcRelAggregates") EXCEPT
                      !.GlobalId = HostGuid(p),
                      !.Relating = locals[p][Cur(p).var],
                      !.Related = RelatedObjects(p, Cur(p).children)] >>)
  /\ Goto(p, pc[p] + 1)
  /\ UNCHANGED << locals, docs, entropy, raised, ret >>

\* return ifc_file
Return(p) ==
  /\ Running(p) /\ Cur(p).op = "return"
  /\ docs' = [docs EXCEPT ![p] = Append(@, file[p])]
  /\ ret' = [ret EXCEPT ![p] = << Len(docs[p]) + 1 >>]
  /\ Goto(p, 0)
  /\ UNCHANGED << generator, issued, locals, file, entropy, raised >>

\* The process ends.
Exit(p) ==
  /\ pc[p] = 0
  /\ Len(docs[p]) > 0 \/ raised[p] # ""
  /\ Goto(p, -1)
  /\ UNCHANGED << generator, issued, locals, file, docs, entropy, raised, ret >>

----------------------------------------------------------------------------
(* Initial values of the parts a specification leaves alone                *)

GeneratorsIdle ==
  /\ generator = [ g \in Instances |-> PostInit(DefaultSeed) ]
  /\ issued = [ g \in Instances |-> << >> ]

UuidIdle == uuidIn = << >> /\ uuidOut = << >>

ProcessesIdle ==
  /\ example = 1
  /\ pc = [ p \in Procs |-> 0 ]
  /\ locals = [ p \in Procs |-> NoLocals ]
  /\ file = [ p \in Procs |-> << >> ]
  /\ docs = [ p \in Procs |-> << >> ]
  /\ entropy = [ p \in Procs |-> [src |-> 1, k |-> 0] ]
  /\ raised = [ p \in Procs |-> "" ]
  /\ ret = [ p \in Procs |-> << >> ]
  /\ call = NoCall
  /\ main = [ p \in Procs |-> NoMain ]

----------------------------------------------------------------------------
(* SpecGen: two GuidGenerator instances, each constructed with a seed of   *)
(* Seeds, called in any interleaving.                                      *)

InitGen ==
  /\ generator \in [ Instances -> { PostInit(s) : s \in Seeds } ]
  /\ issued = [ g \in Instances |-> << >> ]
  /\ UuidIdle
  /\ ProcessesIdle

GenUnchanged ==
  UNCHANGED << uuidIn, uuidOut, example, pc, locals, file, docs, entropy, raised,
               ret, call, main >>

CallUuid1 ==
  \E g \in Instances :
    Len(issued[g]) < MaxCalls /\ NewConsistentUuid1Guid(g) /\ GenUnchanged

CallUuid4 ==
  \E g \in Instances :
    Len(issued[g]) < MaxCalls /\ NewConsistentUuid4Guid(g) /\ GenUnchanged

NextGen == CallUuid1 \/ CallUuid4

SpecGen == InitGen /\ [][NextGen]_vars

----------------------------------------------------------------------------
(* SpecUuid: the conversion of a draw into an identifier, applied to two   *)
(* draws of DrawSet.  DrawSet holds a draw of the seeded device and        *)
(* 128-bit values that differ from it in chosen bits; getrandbits(128) can *)
(* return every 128-bit value.                                             *)

SetByte(int, b, v) == [int EXCEPT ![b] = v]

BaseDraw == MT42[1]

DrawSet ==
  { BaseDraw,
    SetByte(BaseDraw, 7, (BaseDraw[7] + 16) % 256),   \* differs in version bit 76
    SetByte(BaseDraw, 9, (BaseDraw[9] + 64) % 256),   \* differs in variant bit 62
    SetByte(BaseDraw, 7, (BaseDraw[7] + 1) % 256),    \* differs in bit 72
    SetByte(BaseDraw, 9, (BaseDraw[9] + 1) % 256),    \* differs in bit 56
    SetByte(BaseDraw, 16, (BaseDraw[16] + 1) % 256),  \* differs in bit 0
    MT42[2] }

InitUuid ==
  /\ uuidIn \in DrawSet \X DrawSet
  /\ uuidOut = << >>
  /\ GeneratorsIdle
  /\ ProcessesIdle

\* The next call converts its draw: new_consistent_uuid1_guid for version 1,
\* new_consistent_uuid4_guid for version 4.
Convert(version) ==
  /\ Len(uuidOut) < Len(uuidIn)
  /\ uuidOut' = Append(uuidOut,
                  [ version |-> version,
                    guid |-> ConsistentGuid(uuidIn[Len(uuidOut) + 1], version) ])
  /\ UNCHANGED << generator, issued, uuidIn, example, pc, locals, file, docs,
                  entropy, raised, ret, call, main >>

ConvertUuid1 == Convert(1)

ConvertUuid4 == Convert(4)

NextUuid == ConvertUuid1 \/ ConvertUuid4

SpecUuid == InitUuid /\ [][NextUuid]_vars

----------------------------------------------------------------------------
(* SpecBuild: two runs of one builder, each in a process of its own with   *)
(* the module-level GuidGenerator() and its own operating-system entropy.  *)
(* A process may invoke the builder up to MaxInvocations times before it   *)
(* ends; the second run starts when the first has ended.                   *)

InitBuild ==
  /\ example \in {1, 2}
  /\ generator = [ p \in Procs |-> PostInit(DefaultSeed) ]
  /\ issued = [ p \in Procs |-> << >> ]
  /\ pc = [ p \in Procs |-> 0 ]
  /\ locals = [ p \in Procs |-> NoLocals ]
  /\ file = [ p \in Procs |-> << >> ]
  /\ docs = [ p \in Procs |-> << >> ]
  /\ entropy \in [ Procs -> { [src |-> s, k |-> 0] : s \in EntropySources } ]
  /\ raised = [ p \in Procs |-> "" ]
  /\ ret = [ p \in Procs |-> << >> ]
  /\ call = NoCall
  /\ main = [ p \in Procs |-> NoMain ]
  /\ UuidIdle

MayRun(p) == \A q \in Procs : q < p => pc[q] = -1

BuildUnchanged == UNCHANGED << uuidIn, uuidOut, example, call, main >>

BuildCallExample == \E p \in Procs : MayRun(p) /\ CallExample(p) /\ BuildUnchanged
BuildAddOwner == \E p \in Procs : MayRun(p) /\ AddOwner(p) /\ BuildUnchanged
BuildAddUnits == \E p \in Procs : MayRun(p) /\ AddUnits(p) /\ BuildUnchanged
BuildAddDefaultGeometryContext ==
  \E p \in Procs : MayRun(p) /\ AddDefaultGeometryContext(p) /\ BuildUnchanged
BuildAddProject == \E p \in Procs : MayRun(p) /\ AddProject(p) /\ BuildUnchanged
BuildCreateElement == \E p \in Procs : MayRun(p) /\ CreateElement(p) /\ BuildUnchanged
BuildAssignGlobalId == \E p \in Procs : MayRun(p) /\ AssignGlobalId(p) /\ BuildUnchanged
BuildAssignName == \E p \in Procs : MayRun(p) /\ AssignName(p) /\ BuildUnchanged
BuildAttachProperties ==
  \E p \in Procs : MayRun(p) /\ AttachProperties(p) /\ BuildUnchanged
BuildAttachSquare == \E p \in Procs : MayRun(p) /\ AttachSquare(p) /\ BuildUnchanged
BuildCreateRelAggregates ==
  \E p \in Procs : MayRun(p) /\ CreateRelAggregates(p) /\ BuildUnchanged
BuildReturn == \E p \in Procs : MayRun(p) /\ Return(p) /\ BuildUnchanged
BuildExit == \E p \in Procs : MayRun(p) /\ Exit(p) /\ BuildUnchanged

NextBuild ==
  \/ BuildCallExample
  \/ BuildAddOwner
  \/ BuildAddUnits
  \/ BuildAddDefaultGeometryContext
  \/ BuildAddProject
  \/ BuildCreateElement
  \/ BuildAssignGlobalId
  \/ BuildAssignName
  \/ BuildAttachProperties
  \/ BuildAttachSquare
  \/ BuildCreateRelAggregates
  \/ BuildReturn
  \/ BuildExit

SpecBuild == InitBuild /\ [][NextBuild]_vars

----------------------------------------------------------------------------
(* SpecProps: add_properties called directly on one element of a file,     *)
(* first (optionally) with one of the mappings the builders pass, then     *)
(* with any mapping of Mappings.                                           *)

KeyNames == << "scale", "title", "revision", "author" >>

Keys == { KeyNames[i] : i \in 1..MaxKeys }

\* One value of each Python type the claims name.
PyValues ==
  { Str("A1"), [t |-> "int", v |-> "3"], [t |-> "float", v |-> "1.5"],
    [t |-> "bool", v |-> "True"], [t |-> "NoneType", v |-> "None"],
    [t |-> "list", v |-> "[1, 2]"], [t |-> "dict", v |-> "{}"] }

\* A dict in insertion order: its keys are pairwise different.
Mappings ==
  UNION { { m \in [ 1..n -> [key : Keys, value : PyValues] ] :
              \A i, j \in 1..n : i # j => m[i].key # m[j].key } : n \in 0..MaxKeys }

BuilderDicts ==
  { TypeDict("DocumentSet"), TypeDict("Sheet"), TypeDict("ViewPort"), TypeDict("View") }

\* The file after element = ifc_file.createIfcAnnotation().
InitProps ==
  /\ example = 1
  /\ pc = [ p \in Procs |-> 0 ]
  /\ locals = [ p \in Procs |-> IF p = 1 THEN [NoLocals EXCEPT !["element"] = 1]
                                         ELSE NoLocals ]
  /\ file = [ p \in Procs |-> IF p = 1 THEN << Entity("IfcAnnotation") >> ELSE << >> ]
  /\ docs = [ p \in Procs |-> << >> ]
  /\ entropy \in { [ p \in Procs |-> [src |-> IF p = 1 THEN s ELSE 1, k |-> 0] ] :
                     s \in EntropySources }
  /\ raised = [ p \in Procs |-> "" ]
  /\ ret = [ p \in Procs |-> << >> ]
  /\ call = NoCall
  /\ main = [ p \in Procs |-> NoMain ]
  /\ GeneratorsIdle
  /\ UuidIdle

\* add_properties(ifc_file, element, d), called as the n-th direct call.
DirectAddProperties(d, n) ==
  /\ raised[1] = ""
  /\ LET r == AddProperties(file[1], locals[1]["element"], d,
                            entropy[1].src, entropy[1].k)
     IN  /\ file' = [file EXCEPT ![1] = r.file]
         /\ entropy' = [entropy EXCEPT ![1].k = @ + r.drawn]
         /\ raised' = [raised EXCEPT ![1] = r.raised]
  /\ call' = [NoCall EXCEPT !.n = n, !.fn = "add_properties", !.dict = d,
                            !.before = file[1]]
  /\ UNCHANGED << generator, issued, uuidIn, uuidOut, example, pc, locals, docs, ret,
                  main >>

PropsBuilderDict == call.n = 0 /\ \E d \in BuilderDicts : DirectAddProperties(d, 1)

PropsMapping == call.n \in {0, 1} /\ \E d \in Mappings : DirectAddProperties(d, 2)

NextProps == PropsBuilderDict \/ PropsMapping

SpecProps == InitProps /\ [][NextProps]_vars

----------------------------------------------------------------------------
(* SpecPoly: one direct call of create_polygon_representation or of        *)
(* create_square_representation on a file that holds the geometry context. *)

Points == { << 0, 0 >>, << 2, 0 >>, << 2, 2 >> }

CoordLists == UNION { [ 1..n -> Points ] : n \in 1..MaxPoints }

Origins == { << 0, 0, 0 >>, << -10, 0, 0 >> }

Sizes == { 0, 16, 20, 60 }

InitPoly ==
  /\ example = 2
  /\ pc = [ p \in Procs |-> 0 ]
  /\ locals = [ p \in Procs |-> IF p = 1 THEN [NoLocals EXCEPT !["geom_context"] = 5]
                                         ELSE NoLocals ]
  /\ file = [ p \in Procs |-> IF p = 1 THEN GeometryContextEntities(0) ELSE << >> ]
  /\ docs = [ p \in Procs |-> << >> ]
  /\ entropy = [ p \in Procs |-> [src |-> 1, k |-> 0] ]
  /\ raised = [ p \in Procs |-> "" ]
  /\ ret = [ p \in Procs |-> << >> ]
  /\ call = NoCall
  /\ main = [ p \in Procs |-> NoMain ]
  /\ GeneratorsIdle
  /\ UuidIdle

\* The state after a direct call whose result is r.
Returned(r, made) ==
  /\ file' = [file EXCEPT ![1] = r.file]
  /\ raised' = [raised EXCEPT ![1] = r.raised]
  /\ ret' = [ret EXCEPT ![1] = IF r.raised = "" THEN << r.shape, r.placement >>
                                                 ELSE << >>]
  /\ call' = made
  /\ UNCHANGED << generator, issued, uuidIn, uuidOut, example, pc, locals, docs,
                  entropy, main >>

PolygonCall ==
  /\ call.n = 0
  /\ \E coords \in CoordLists, origin \in Origins :
       Returned(CreatePolygonRepresentation(file[1], locals[1]["geom_context"],
                                            coords, origin),
                [NoCall EXCEPT !.n = 1, !.fn = "create_polygon_representation",
                               !.coords = coords, !.before = file[1]])

SquareCall ==
  /\ call.n = 0
  /\ \E size \in Sizes, origin \in Origins :
       Returned(CreateSquareRepresentation(file[1], locals[1]["geom_context"],
                                           size, origin),
                [NoCall EXCEPT !.n = 1, !.fn = "create_square_representation",
                               !.size = size, !.before = file[1]])

NextPoly == PolygonCall \/ SquareCall

SpecPoly == InitPoly /\ [][NextPoly]_vars

----------------------------------------------------------------------------
(* Properties                                                              *)

Min(a, b) == IF a < b THEN a ELSE b

Range(seq) == { seq[i] : i \in 1..Len(seq) }

\* C1: two GuidGenerator instances constructed with the same seed return the
\* same identifiers for the same sequence of calls to the consistent
\* methods: whenever their first i calls are calls of the same methods, the
\* i-th results are equal.
C1_SameSeedSameSequence ==
  generator[1].seed = generator[2].seed =>
    \A i \in 1..Min(Len(issued[1]), Len(issued[2])) :
      (\A j \in 1..i : issued[1][j].kind = issued[2][j].kind)
        => issued[1][i].guid = issued[2][i].guid

\* Both instances have the same seed and made the same three or more calls,
\* of both methods.
C1_Witness ==
  /\ generator[1].seed = generator[2].seed
  /\ Len(issued[1]) >= 3 /\ Len(issued[2]) = Len(issued[1])
  /\ \A j \in 1..Len(issued[1]) : issued[1][j].kind = issued[2][j].kind
  /\ \E j, k \in 1..Len(issued[1]) : issued[1][j].kind # issued[1][k].kind

\* The GlobalIds of a file, in creation order of the entities that carry one.
Identified(f) == SelectSeq(f, LAMBDA e : e.GlobalId # << >>)

AllIds(f) == [ i \in 1..Len(Identified(f)) |-> Identified(f)[i].GlobalId ]

NodeTypes == { "IfcProject", "IfcSite", "IfcAnnotation" }

NodesAndEdges(f) ==
  SelectSeq(f, LAMBDA e : e.type \in NodeTypes \cup { "IfcRelAggregates" })

NodeEdgeIds(f) == [ i \in 1..Len(NodesAndEdges(f)) |-> NodesAndEdges(f)[i].GlobalId ]

\* C2: two independent runs of the builder, each in a fresh process with the
\* default seed, give every identified element of the document (nodes,
\* aggregation relationships, property sets, property relationships) the
\* same identifier.
C2_RunsIdentical ==
  (Len(docs[1]) >= 1 /\ Len(docs[2]) >= 1) => AllIds(docs[1][1]) = AllIds(docs[2][1])

\* C3: the identifiers of nodes and edges an invocation assigns do not depend
\* on earlier invocations in the same process: the first and the second
\* invocation yield the same node and edge identifiers.
C3_InvocationsIndependent ==
  \A p \in Procs :
    Len(docs[p]) >= 2 => NodeEdgeIds(docs[p][1]) = NodeEdgeIds(docs[p][2])

\* The bits of a draw that UUID(int=..., version=...) keeps.
KeptBits(int) == [int EXCEPT ![7] = @ % 16, ![9] = @ % 64]

SameMethodTwice == Len(uuidOut) = 2 /\ uuidOut[1].version = uuidOut[2].version

\* C4, as stated: two calls of the same consistent method that consume
\* different 128-bit draws return different identifiers.
C4_DifferentDrawsDifferentGuids ==
  (SameMethodTwice /\ uuidIn[1] # uuidIn[2]) => uuidOut[1].guid # uuidOut[2].guid

\* C4, amended: two calls of the same consistent method whose draws differ
\* in a bit other than the four version bits (79..76) and the two variant
\* bits (63, 62) return different identifiers.
C4_DifferentKeptBitsDifferentGuids ==
  (SameMethodTwice /\ KeptBits(uuidIn[1]) # KeptBits(uuidIn[2]))
    => uuidOut[1].guid # uuidOut[2].guid

\* Two calls of new_consistent_uuid1_guid on draws that differ in bit 72
\* only.
C4_Witness ==
  /\ SameMethodTwice /\ uuidOut[1].version = 1
  /\ uuidIn[1] = BaseDraw
  /\ uuidIn[2] = SetByte(BaseDraw, 7, (BaseDraw[7] + 1) % 256)

\* The node and edge GlobalIds of every document the default-seeded builder
\* produces or is producing are pairwise different.
GlobalIdsDistinct ==
  \A p \in Procs :
    \A i, j \in 1..Len(NodeEdgeIds(file[p])) :
      (i # j /\ NodeEdgeIds(file[p])[i] # << >>)
        => NodeEdgeIds(file[p])[i] # NodeEdgeIds(file[p])[j]

Supported(value) == value.t \in { "str", "int", "float" }

\* The entities the last direct call added to the file.
Added == SubSeq(file[1], Len(call.before) + 1, Len(file[1]))

AddedOfType(type) == SelectSeq(Added, LAMBDA e : e.type = type)

PriorKept == SubSeq(file[1], 1, Len(call.before)) = call.before

\* C5: add_properties rejects every mapping that has an entry whose value is
\* not a string, an integer or a float (a boolean, None, a list, a dict, at
\* any position) by raising, and then attaches nothing: no property set and
\* no IfcRelDefinesByProperties is created, and what earlier calls attached
\* is unchanged.
C5_RejectsUnsupported ==
  (call.n = 2 /\ \E i \in 1..Len(call.dict) : ~Supported(call.dict[i].value))
    => /\ raised[1] = "ValueError"
       /\ AddedOfType("IfcPropertySet") = << >>
       /\ AddedOfType("IfcRelDefinesByProperties") = << >>
       /\ PriorKept

\* The wrapper the claim names for a value of a supported type.
WrapperOf(value) ==
  IF value.t = "str" THEN "IfcText"
  ELSE IF value.t = "int" THEN "IfcInteger" ELSE "IfcReal"

\* C6: for a mapping whose values are all strings, integers or floats,
\* add_properties creates one property set whose HasProperties has exactly
\* one IfcPropertySingleValue per entry, in insertion order, each named by
\* its key and carrying the value unchanged in the wrapper of its type.
C6_PropertiesMirrorMapping ==
  (call.n = 2 /\ \A i \in 1..Len(call.dict) : Supported(call.dict[i].value))
    => /\ raised[1] = ""
       /\ Len(AddedOfType("IfcPropertySet")) = 1
       /\ LET has == AddedOfType("IfcPropertySet")[1].Related
          IN  /\ Len(has) = Len(call.dict)
              /\ \A i \in 1..Len(call.dict) :
                   /\ file[1][has[i]].type = "IfcPropertySingleValue"
                   /\ file[1][has[i]].Name = call.dict[i].key
                   /\ file[1][has[i]].Value.wrap = WrapperOf(call.dict[i].value)
                   /\ file[1][has[i]].Value.t = call.dict[i].value.t
                   /\ file[1][has[i]].Value.v = call.dict[i].value.v
              /\ \A i, j \in 1..Len(has) : i # j => has[i] # has[j]

\* A call with a two-entry mapping, a float before a string, after an
\* earlier call.
C6_Witness ==
  /\ call.n = 2 /\ Len(call.before) > 1
  /\ Len(call.dict) = 2
  /\ call.dict[1].value.t = "float" /\ call.dict[2].value.t = "str"
  /\ raised[1] = ""

Aggregations(f) == { r \in 1..Len(f) : f[r].type = "IfcRelAggregates" }

Nodes(f) == { e \in 1..Len(f) : f[e].type \in NodeTypes }

\* The relationships that list e among their RelatedObjects.
ParentEdges(f, e) == { r \in Aggregations(f) : e \in Range(f[r].Related) }

ParentsOf(f, S) == { f[r].Relating : r \in UNION { ParentEdges(f, e) : e \in S } }

RECURSIVE AncestorsWithin(_, _, _)
AncestorsWithin(f, S, steps) ==
  IF steps = 0 THEN S
  ELSE AncestorsWithin(f, S \cup ParentsOf(f, S), steps - 1)

Ancestors(f, e) == AncestorsWithin(f, ParentsOf(f, {e}), Cardinality(Nodes(f)))

IsForest(f) ==
  \A e \in Nodes(f) :
    /\ Cardinality(ParentEdges(f, e)) <= 1
    /\ \A r \in ParentEdges(f, e) :
         Cardinality({ i \in 1..Len(f[r].Related) : f[r].Related[i] = e }) = 1
    /\ e \notin Ancestors(f, e)

\* C7: after every step of example1() and example2() the aggregation
\* structure is a tree: every element is in the RelatedObjects of at most
\* one IfcRelAggregates and no element is its own ancestor.
C7_AggregationIsTree == \A p \in Procs : IsForest(file[p])

\* A builder is about to return: every aggregation exists.
C7_Witness ==
  \E p \in Procs :
    /\ Running(p) /\ Cur(p).op = "return"
    /\ Cardinality(Aggregations(file[p])) >= 5

\* The documents the invocations have returned.
Finished == UNION { Range(docs[p]) : p \in Procs }

Roots(f) == { e \in Nodes(f) : f[e].type = "IfcProject" }

RECURSIVE SumRelated(_, _)
SumRelated(f, rs) ==
  IF rs = {} THEN 0
  ELSE LET r == CHOOSE x \in rs : TRUE
       IN  Len(f[r].Related) + SumRelated(f, rs \ {r})

\* C8, as stated: in the finished document the number of IfcRelAggregates
\* relationships equals the number of non-root nodes.
C8_EdgesEqualNonRoots ==
  \A f \in Finished :
    Cardinality(Aggregations(f)) = Cardinality(Nodes(f) \ Roots(f))

\* C8, amended: in the finished document every non-root node has exactly one
\* parent edge and the root has none, so the number of parent-child links
\* (the RelatedObjects entries of all IfcRelAggregates) equals the number of
\* non-root nodes; the number of IfcRelAggregates relationships equals the
\* number of nodes that have children.
C8_LinksEqualNonRoots ==
  \A f \in Finished :
    /\ Cardinality(Roots(f)) = 1
    /\ \A e \in Nodes(f) \ Roots(f) : Cardinality(ParentEdges(f, e)) = 1
    /\ \A e \in Roots(f) : ParentEdges(f, e) = {}
    /\ SumRelated(f, Aggregations(f)) = Cardinality(Nodes(f) \ Roots(f))
    /\ Cardinality(Aggregations(f)) =
         Cardinality({ e \in Nodes(f) : \E r \in Aggregations(f) : f[r].Relating = e })

\* A builder has returned a document.
C8_Witness ==
  \E f \in Finished : Cardinality(Aggregations(f)) >= 5 /\ Cardinality(Nodes(f)) >= 8

\* The coordinates of the points of the polyline the last direct call made.
PolylinePoints ==
  LET line == AddedOfType("IfcPolyline")[1]
  IN  [ i \in 1..Len(line.Related) |-> file[1][line.Related[i]].Coords ]

\* C9: create_polygon_representation always yields a closed loop: the first
\* point of the polyline equals its last, the first point being appended
\* when the input is not already closed.
C9_PolylineClosed ==
  (call.n = 1 /\ call.fn = "create_polygon_representation")
    => /\ Len(AddedOfType("IfcPolyline")) = 1
       /\ PolylinePoints[1] = PolylinePoints[Len(PolylinePoints)]
       /\ PolylinePoints =
            IF call.coords[1] = call.coords[Len(call.coords)]
            THEN call.coords ELSE Append(call.coords, call.coords[1])

Degenerate ==
  \/ call.fn = "create_polygon_representation" /\ Cardinality(Range(call.coords)) < 3
  \/ call.fn = "create_square_representation" /\ call.size = 0

\* C10: create_polygon_representation called with fewer than 3 distinct
\* points, and create_square_representation called with size 0, signal an
\* error and return no shape or placement.
C10_RejectsDegenerate ==
  (call.n = 1 /\ Degenerate) => (raised[1] # "" /\ ret[1] = << >>)

----------------------------------------------------------------------------
(* SpecMain: each process runs _main() once: the builder, the              *)
(* serialize-and-reparse round trip, ifcopenshell.validate.validate and    *)
(* ifc_file.write.  validate reports what it finds to the logger it is     *)
(* given and returns nothing; _main reads no result of it.  Whether it     *)
(* reports a violation is the validator's verdict, either one here.        *)

InitMain == InitBuild

At(p, where) == main' = [main EXCEPT ![p].at = where]

\* ifc_file = example1()   (the call; the builder's statements follow)
MainCallExample(p) ==
  /\ main[p].at = "idle"
  /\ CallExample(p)
  /\ At(p, "example")

\* ifc_file = ifcopenshell.file.from_string(ifc_file.to_string())
MainFromString(p) ==
  /\ main[p].at = "example"
  /\ pc[p] = 0 /\ raised[p] = "" /\ Len(docs[p]) = 1
  /\ At(p, "reparsed")
  /\ UNCHANGED << generator, issued, pc, locals, file, docs, entropy, raised, ret >>

\* ifcopenshell.validate.validate(ifc_file, logger=logging.root,
\*                                express_rules=True)
MainValidate(p, reports) ==
  /\ main[p].at = "reparsed"
  /\ main' = [main EXCEPT ![p].at = "validated", ![p].violations = reports]
  /\ UNCHANGED << generator, issued, pc, locals, file, docs, entropy, raised, ret >>

OutputName == IF example = 1 THEN "example1.ifc" ELSE "example2.ifc"

\* ifc_file.write('example1.ifc'); _main returns and the process ends.
MainWrite(p) ==
  /\ main[p].at = "validated"
  /\ main' = [main EXCEPT ![p].at = "done", ![p].written = Append(@, OutputName)]
  /\ Goto(p, -1)
  /\ UNCHANGED << generator, issued, locals, file, docs, entropy, raised, ret >>

MainUnchanged == UNCHANGED << uuidIn, uuidOut, example, call >>

RunCallExample == \E p \in Procs : MayRun(p) /\ MainCallExample(p) /\ MainUnchanged
RunFromString == \E p \in Procs : MayRun(p) /\ MainFromString(p) /\ MainUnchanged
RunValidate ==
  \E p \in Procs, reports \in BOOLEAN :
    MayRun(p) /\ MainValidate(p, reports) /\ MainUnchanged
RunWrite == \E p \in Procs : MayRun(p) /\ MainWrite(p) /\ MainUnchanged

NextMain ==
  \/ RunCallExample
  \/ BuildAddOwner
  \/ BuildAddUnits
  \/ BuildAddDefaultGeometryContext
  \/ BuildAddProject
  \/ BuildCreateElement
  \/ BuildAssignGlobalId
  \/ BuildAssignName
  \/ BuildAttachProperties
  \/ BuildAttachSquare
  \/ BuildCreateRelAggregates
  \/ BuildReturn
  \/ RunFromString
  \/ RunValidate
  \/ RunWrite

SpecMain == InitMain /\ [][NextMain]_vars

\* C11: the output file is written only after the build, the round trip and
\* the validation have all completed, and it is not written when the build
\* raises or when validation reports a violation.
C11_WrittenOnlyIfValid ==
  \A p \in Procs :
    main[p].written # << >>
      => /\ main[p].at = "done"
         /\ Len(docs[p]) = 1 /\ raised[p] = ""
         /\ ~main[p].violations

\* The part of C11 that is about order alone: a written file follows a
\* finished build, round trip and validation.
WrittenLast ==
  \A p \in Procs :
    main[p].written # << >> => (main[p].at = "done" /\ Len(docs[p]) = 1 /\ raised[p] = "")

\* The local variable var of process p is bound to an entity that has its
\* GlobalId.
HasId(p, var) ==
  /\ locals[p][var] \in 1..Len(file[p])
  /\ file[p][locals[p][var]].GlobalId # << >>

\* The aggregation statements of the running builder: the declared tree.
Declared == { i \in 1..Len(Program) : Program[i].op = "agg" }

\* No node has its identifier before its declared parent has one.
ParentIdFirst ==
  \A p \in Procs : \A i \in Declared :
    \A c \in Range(Program[i].children) :
      (pc[p] # -1 /\ HasId(p, c)) => HasId(p, Program[i].var)

\* Every aggregation relationship lists nodes created before it.
ChildrenExistFirst ==
  \A p \in Procs : \A r \in Aggregations(file[p]) :
    \A i \in 1..Len(file[p][r].Related) :
      /\ file[p][r].Related[i] \in 1..(r - 1)
      /\ file[p][file[p][r].Related[i]].type \in NodeTypes

\* The RelatedObjects of the relationship that e relates, in listed order.
ChildrenOf(f, e) ==
  LET rs == { r \in Aggregations(f) : f[r].Relating = e }
  IN  IF rs = {} THEN << >> ELSE f[CHOOSE r \in rs : TRUE].Related

RECURSIVE Preorder(_, _, _)
RECURSIVE PreorderAll(_, _, _)

\* The depth-first walk from e: e, then the walk of each child in listed
\* order (at most depth levels deep).
Preorder(f, e, depth) ==
  IF depth = 0 THEN << e >>
  ELSE << e >> \o PreorderAll(f, ChildrenOf(f, e), depth - 1)

PreorderAll(f, cs, depth) ==
  IF cs = << >> THEN << >>
  ELSE Preorder(f, Head(cs), depth) \o PreorderAll(f, Tail(cs), depth)

\* The nodes of f in the order of their creation.
NodesInOrder(f) ==
  SelectSeq([ i \in 1..Len(f) |-> i ], LAMBDA i : f[i].type \in NodeTypes)

\* The position in the generator's call sequence at which guid was returned.
IssuedAt(p, guid) == CHOOSE i \in 1..Len(issued[p]) : issued[p][i].guid = guid

\* In every returned document, creation order and identifier order of the
\* nodes are the depth-first order of the tree.
DepthFirstOrder ==
  \A p \in Procs : \A k \in 1..Len(docs[p]) :
    LET f == docs[p][k]
        order == NodesInOrder(f)
    IN  /\ \A e \in Roots(f) : order = Preorder(f, e, Cardinality(Nodes(f)))
        /\ \A i, j \in 1..Len(order) :
             i < j => IssuedAt(p, f[order[i]].GlobalId) < IssuedAt(p, f[order[j]].GlobalId)

\* C12: nodes are created and draw their identifiers in depth-first order,
\* parents before children and siblings in declaration order: no node has
\* its identifier before its parent has one, and a parent's aggregation
\* relationship is created only after all the children it lists exist.
C12_DepthFirstParentFirst == ParentIdFirst /\ ChildrenExistFirst /\ DepthFirstOrder

\* A process has returned one document and is building the next, with
\* aggregations already made.
C12_Witness ==
  \E p \in Procs :
    /\ Len(docs[p]) >= 1 /\ Running(p)
    /\ Cardinality(Aggregations(file[p])) >= 2
    /\ \E i \in Declared : HasId(p, Program[i].children[1])

\* The last direct call raised at an entry that follows at least one entry
\* of a supported type.
FailedAfterSupported ==
  /\ call.n = 2 /\ raised[1] = "ValueError"
  /\ Len(call.dict) >= 2 /\ Supported(call.dict[1].value)

\* C13, as stated: a failed add_properties call has no effect on the file:
\* when it raises for an unsupported value that follows one or more
\* supported entries, ifc_file holds exactly the entities it held before.
C13_FailedCallNoEffect == FailedAfterSupported => file[1] = call.before

\* Entity e of the file refers to entity id.
RefersTo(e, id) ==
  \/ e.Relating = id \/ id \in Range(e.Related)
  \/ e.Representation = id \/ e.ObjectPlacement = id

\* C13, amended: a failed add_properties call attaches nothing, but it is
\* not without effect on the file: the entities the file held before are
\* unchanged, no property set and no relationship is created, and the call
\* leaves one IfcPropertySingleValue (with its value) for each entry that
\* precedes the entry it raised at, in order, referred to by nothing.
C13_FailedCallLeavesProperties ==
  FailedAfterSupported
    => /\ PriorKept
       /\ Len(Added) \in 1..(Len(call.dict) - 1)
       /\ ~Supported(call.dict[Len(Added) + 1].value)
       /\ \A i \in 1..Len(Added) :
            /\ Added[i].type = "IfcPropertySingleValue"
            /\ Added[i].Name = call.dict[i].key
            /\ Added[i].Value.t = call.dict[i].value.t
            /\ Added[i].Value.v = call.dict[i].value.v
            /\ \A j \in 1..Len(file[1]) :
                 ~RefersTo(file[1][j], Len(call.before) + i)

\* A call that raised at its second entry, after an earlier successful call.
C13_Witness ==
  /\ FailedAfterSupported
  /\ Len(call.before) > 1
  /\ Len(Added) = 1

====
